---- MODULE Spec2Model ----
(***************************************************************************)
(* Model of the concurrent single-day job scheduler of                     *)
(* facebook_downloader/downloader.py:                                      *)
(*   _process_single_day_jobs_concurrently  (the controller),              *)
(*   _job_thread_func / _process_job        (the workers),                 *)
(*   _retry_thread_func                     (the retry dispatcher),        *)
(*   JobQueueItem / RetryQueueItem / ThreadArgs (the shared state).        *)
(* Each threading.Condition is modelled by the thread that owns its lock   *)
(* and by the program counters of the threads waiting on it.               *)
(***************************************************************************)
EXTENDS Integers, Sequences, FiniteSets, TLC

\* ------------------------------------------------------------------ bounds
MaxJobs == 2
MaxThreads == 2
MaxDate == 2
MaxRequestErrors == 3
LiveRequestErrors == 2

\* --------------------------------------------------------- program constants
RetryLimit == 8
BaseDelay == 60
NoJob == 0

Dates == 1..MaxDate

\* the values of the argument n_threads: the valid ones, 0 and a negative one
ThreadCounts == (0 - 1)..MaxThreads
Outcomes == {"success", "rate_limit", "request_error", "error"}

\* thread identities, used as lock owners
Free == <<>>
Controller == <<"controller">>
Dispatcher == <<"dispatcher">>
Worker(w) == <<"worker", w>>

\* typing.Optional[float] / typing.Optional[RetryQueueItem]
None == <<>>
Some(x) == <<x>>

VARIABLES
    n_threads,          \* argument n_threads
    date,               \* JobQueueItem.date of every job of the argument job_list
    max_errors,         \* how many FacebookRequestErrors the remote API raises at most
    try_count,          \* JobQueueItem.try_count of every job
    args_created,       \* ThreadArgs has been constructed
    job_list,           \* ThreadArgs.job_list (heap of jobs)
    retry_queue,        \* ThreadArgs.retry_queue (heap of RetryQueueItem)
    jobs_left,          \* ThreadArgs.jobs_left
    job_thread_done,    \* ThreadArgs.job_thread_done
    retry_thread_done,  \* ThreadArgs.retry_thread_done
    error_occured,      \* ThreadArgs.error_occured
    job_list_cv,        \* owner of the lock of ThreadArgs.job_list_cv
    retry_queue_cv,     \* owner of the lock of ThreadArgs.retry_queue_cv
    cpc,                \* position of the controller thread
    wpc,                \* position of every worker thread
    wjob,               \* local variable job of every worker
    w_outcome,          \* what the attempt of every worker ended with
    w_retry_at,         \* local variable retry_at of _process_job
    w_until,            \* end of the time.sleep of every worker
    dpc,                \* position of the retry thread
    d_now,              \* local variable now of _retry_thread_func
    d_wake,             \* end of the timed wait of the retry thread, or None
    nsucc,              \* history: successful attempts of every job
    nretry,             \* history: retryably failed attempts of every job
    dropped,            \* history: jobs whose attempt ended the run
    first_fatal         \* history: the job of the first worker that set error_occured

vars == << n_threads, date, max_errors, try_count, args_created, job_list, retry_queue,
           jobs_left, job_thread_done, retry_thread_done, error_occured,
           job_list_cv, retry_queue_cv,
           cpc, wpc, wjob, w_outcome, w_retry_at, w_until,
           dpc, d_now, d_wake, nsucc, nretry, dropped, first_fatal >>

\* datetime.datetime.now(): every instant the program stores is kept as its
\* distance from the present instant, so the clock itself always reads 0 and
\* the passing of time (Tick) moves every stored instant towards the past
now == 0

Workers == 1..MaxThreads
JobIds == DOMAIN date

\* ------------------------------------------------------------ comparators
\* JobQueueItem.__lt__ with the dates compared the other way round
JobLt_EarlierDate(self, other) ==
    IF try_count[self] > try_count[other] THEN TRUE
    ELSE IF try_count[self] < try_count[other] THEN FALSE
    ELSE IF date[self] < date[other] THEN TRUE
    ELSE FALSE

\* JobQueueItem.__lt__(self, other)
JobLt(self, other) ==
    IF try_count[self] > try_count[other] THEN TRUE
    ELSE IF try_count[self] < try_count[other] THEN FALSE
    ELSE IF date[self] > date[other] THEN TRUE
    ELSE FALSE

\* RetryQueueItem.__lt__(self, other)
RetryLt(self, other) == self.retry_at < other.retry_at

\* a < b between two items of one heap: Python calls the __lt__ of their class
Less(cls, a, b) == IF cls = "JobQueueItem" THEN JobLt(a, b) ELSE RetryLt(a, b)

\* ------------------------------------------------------------------ heapq
\* heapq._siftdown(heap, startpos, pos), positions counted from 0
SiftDown(cls, heap, startpos, pos) ==
    LET newitem == heap[pos + 1]
        RECURSIVE go(_, _)
        go(h, p) ==
            IF p > startpos
            THEN LET parentpos == (p - 1) \div 2
                     parent == h[parentpos + 1]
                 IN  IF Less(cls, newitem, parent)
                     THEN go([h EXCEPT ![p + 1] = parent], parentpos)
                     ELSE [h EXCEPT ![p + 1] = newitem]
            ELSE [h EXCEPT ![p + 1] = newitem]
    IN  go(heap, pos)

\* heapq._siftup(heap, pos), positions counted from 0
SiftUp(cls, heap, pos) ==
    LET endpos == Len(heap)
        newitem == heap[pos + 1]
        RECURSIVE go(_, _)
        go(h, p) ==
            LET childpos == 2 * p + 1
                rightpos == childpos + 1
                c == IF rightpos < endpos /\ ~Less(cls, h[childpos + 1], h[rightpos + 1])
                     THEN rightpos ELSE childpos
            IN  IF childpos < endpos
                THEN go([h EXCEPT ![p + 1] = h[c + 1]], c)
                ELSE <<h, p>>
        r == go(heap, pos)
    IN  SiftDown(cls, [r[1] EXCEPT ![r[2] + 1] = newitem], pos, r[2])

\* heapq.heappush(heap, item): the new heap
HeapPush(cls, heap, item) ==
    SiftDown(cls, Append(heap, item), 0, Len(heap))

\* heapq.heappop(heap): << the item returned, the new heap >>
HeapPop(cls, heap) ==
    LET lastelt == heap[Len(heap)]
        rest == SubSeq(heap, 1, Len(heap) - 1)
    IN  IF rest # <<>>
        THEN <<rest[1], SiftUp(cls, [rest EXCEPT ![1] = lastelt], 0)>>
        ELSE <<lastelt, rest>>

\* heapq.heapify(x): for i in reversed(range(n//2)): _siftup(x, i)
Heapify(cls, x) ==
    LET RECURSIVE go(_, _)
        go(h, i) == IF i < 0 THEN h ELSE go(SiftUp(cls, h, i), i - 1)
    IN  go(x, (Len(x) \div 2) - 1)

\* ------------------------------------------------------- retries, due times
\* RetryQueueItem(retry_at, job)
RetryQueueItem(retry_at, job) == [retry_at |-> retry_at, job |-> job]

RECURSIVE Pow2(_)
Pow2(n) == IF n <= 0 THEN 1 ELSE 2 * Pow2(n - 1)

\* a linear backoff: duration = 60 * job.try_count
Duration_Linear(tc) == BaseDelay * tc

\* duration = 60 * 2 ** (job.try_count - 1)
Duration(tc) == BaseDelay * Pow2(tc - 1)

\* the retry test left out: a FacebookRequestError is always retried
MayRetry_Always(tc) == TRUE

\* the retry test off by one: if job.try_count <= 8
MayRetry_OffByOne(tc) == tc <= RetryLimit

\* if job.try_count < 8
MayRetry(tc) == tc < RetryLimit

\* the due test with a slack of one base delay
IsDue_Early(t, top) == t + BaseDelay >= top.retry_at

\* now >= top.retry_at
IsDue(t, top) == t >= top.retry_at

\* ------------------------------------------------------------------- Init
\* the number of FacebookRequestErrors explored in a run: up to the retry
\* limit for a single job, "several" for two jobs on at most two threads,
\* three less for every further job and two less for every further thread
ErrorBudget(njobs, nthreads, several) ==
    LET more_jobs == IF njobs > 2 THEN njobs - 2 ELSE 0
        more_threads == IF nthreads > 2 THEN nthreads - 2 ELSE 0
        less == 3 * more_jobs + 2 * more_threads
    IN  IF njobs <= 1 THEN RetryLimit
        ELSE IF several > less THEN several - less ELSE 0

\* the argument job_list: the scheduler only ever compares two dates, so the
\* dates of a list are taken to be its ranks 1..k, without a gap
JobLists ==
    UNION {{f \in [1..n -> Dates] :
               \A d \in Dates : (\E j \in 1..n : f[j] = d) =>
                                 \A e \in 1..d : \E j \in 1..n : f[j] = e} :
           n \in 0..MaxJobs}

\* the state shared by every thread before the call, whatever the arguments
Created ==
    /\ try_count = [j \in DOMAIN date |-> 0]
    /\ job_list = [i \in DOMAIN date |-> i]
    /\ args_created = FALSE
    /\ retry_queue = <<>>
    /\ jobs_left = 0
    /\ job_thread_done = FALSE
    /\ retry_thread_done = FALSE
    /\ error_occured = FALSE
    /\ job_list_cv = Free
    /\ retry_queue_cv = Free
    /\ cpc = "call"
    /\ wpc = [w \in Workers |-> "unstarted"]
    /\ wjob = [w \in Workers |-> NoJob]
    /\ w_outcome = [w \in Workers |-> "none"]
    /\ w_retry_at = [w \in Workers |-> 0]
    /\ w_until = [w \in Workers |-> 0]
    /\ dpc = "unstarted"
    /\ d_now = 0
    /\ d_wake = None
    /\ nsucc = [j \in DOMAIN date |-> 0]
    /\ nretry = [j \in DOMAIN date |-> 0]
    /\ dropped = {}
    /\ first_fatal = NoJob

Init ==
    /\ n_threads \in ThreadCounts
    /\ date \in JobLists
    /\ max_errors = ErrorBudget(Len(date), n_threads, MaxRequestErrors)
    /\ Created

\* the calls explored for the progress properties: any number of threads,
\* any number of jobs of one date, fewer request errors when there are several jobs
LiveInit ==
    /\ n_threads \in ThreadCounts
    /\ \E n \in 0..MaxJobs : date = [j \in 1..n |-> 1]
    /\ max_errors = ErrorBudget(Len(date), n_threads, LiveRequestErrors)
    /\ Created

\* --------------------------------------------------------- condition waits
\* job_list_cv.notify_all() left out: nobody is woken
NotifyAllJobList_Lost(pc) == pc

\* Condition.notify_all() on job_list_cv: every waiter has to take the lock again
NotifyAllJobList(pc) == [w \in Workers |-> IF pc[w] = "wait" THEN "acquire" ELSE pc[w]]

\* job_list_cv.notify() left out: no waiter is woken
NotifyOneJobList_Lost(pc) == {pc}

\* Condition.notify() on job_list_cv: the possible results of waking one waiter
NotifyOneJobList(pc) ==
    IF \E w \in Workers : pc[w] = "wait"
    THEN {[pc EXCEPT ![w] = "acquire"] : w \in {v \in Workers : pc[v] = "wait"}}
    ELSE {pc}

\* state_changed_cv.notify() left out: the controller is not woken
NotifyStateChanged_Lost(pc) == pc

\* Condition.notify() on state_changed_cv: the controller is its only waiter
NotifyStateChanged(pc) == IF pc = "wait" THEN "check" ELSE pc

\* retry_queue_cv.notify() left out: the retry thread is not woken
NotifyRetryQueue_Lost(pc) == pc

\* Condition.notify() / notify_all() on retry_queue_cv: the retry thread is its only waiter
NotifyRetryQueue(pc) == IF pc = "wait" THEN "acquire" ELSE pc

\* the timed wait of the retry thread is over once it has been notified
WakeAfterNotify(pc, wake) == IF pc = "wait" THEN None ELSE wake

input_vars == << n_threads, date, max_errors >>
flag_vars == << job_thread_done, retry_thread_done, error_occured >>
lock_vars == << job_list_cv, retry_queue_cv >>
local_vars == << wjob, w_outcome, w_retry_at, w_until >>
retry_vars == << dpc, d_now, d_wake >>
hist_vars == << nsucc, nretry, dropped, first_fatal >>

\* ------------------------------------------------------------- controller
\* the argument check off by one: if n_threads < 0
Rejects_OffByOne(n) == n < 0

\* if n_threads < 1: raise ValueError
Rejects(n) == n < 1

\* the counter seeded one short: jobs_left = len(job_list) - 1
C_Enter_OneLess ==
    /\ cpc = "call"
    /\ IF Rejects(n_threads)
       THEN /\ cpc' = "raised"
            /\ UNCHANGED << job_list, args_created, jobs_left, wpc, dpc >>
       ELSE /\ job_list' = Heapify("JobQueueItem", job_list)
            /\ args_created' = TRUE
            /\ jobs_left' = Len(job_list) - 1
            /\ dpc' = "acquire"
            /\ wpc' = [w \in Workers |-> IF w <= n_threads THEN "acquire" ELSE "unstarted"]
            /\ cpc' = "check"
    /\ UNCHANGED << input_vars, try_count, retry_queue, flag_vars, lock_vars,
                    local_vars, d_now, d_wake, hist_vars >>

\* _process_single_day_jobs_concurrently, lines 590-604: the argument check,
\* heapify, ThreadArgs(job_list) and the start of the retry thread and of
\* n_threads workers
C_Enter ==
    /\ cpc = "call"
    /\ IF Rejects(n_threads)
       THEN /\ cpc' = "raised"
            /\ UNCHANGED << job_list, args_created, jobs_left, wpc, dpc >>
       ELSE /\ job_list' = Heapify("JobQueueItem", job_list)
            /\ args_created' = TRUE
            /\ jobs_left' = Len(job_list)
            /\ dpc' = "acquire"
            /\ wpc' = [w \in Workers |-> IF w <= n_threads THEN "acquire" ELSE "unstarted"]
            /\ cpc' = "check"
    /\ UNCHANGED << input_vars, try_count, retry_queue, flag_vars, lock_vars,
                    local_vars, d_now, d_wake, hist_vars >>

\* the loop condition off by one: while (not error_occured) and (jobs_left > 1)
MustWait_OffByOne(err, left) == (~err) /\ (left > 1)

\* while (not error_occured) and (jobs_left > 0)
MustWait(err, left) == (~err) /\ (left > 0)

\* lines 606-613: with state_changed_cv held (taken by acquire() or on the way
\* out of wait()), one test of the loop condition, then wait() or release()
C_Check ==
    /\ cpc = "check"
    /\ cpc' = IF MustWait(error_occured, jobs_left) THEN "wait" ELSE "stop_jobs"
    /\ UNCHANGED << input_vars, try_count, args_created, job_list, retry_queue, jobs_left,
                    flag_vars, lock_vars, wpc, local_vars, retry_vars, hist_vars >>

\* with thread_args.job_list_cv:  (line 618)
C_StopJobsAcquire ==
    /\ cpc = "stop_jobs"
    /\ job_list_cv = Free
    /\ job_list_cv' = Controller
    /\ cpc' = "stop_jobs_locked"
    /\ UNCHANGED << input_vars, try_count, args_created, job_list, retry_queue, jobs_left,
                    flag_vars, retry_queue_cv, wpc, local_vars, retry_vars, hist_vars >>

\* lines 619-623 with the second with nested in the first: job_list_cv is
\* still held when retry_queue_cv is taken
C_StopJobs_Nested ==
    /\ cpc = "stop_jobs_locked"
    /\ job_thread_done' = TRUE
    /\ wpc' = NotifyAllJobList(wpc)
    /\ job_list_cv' = job_list_cv
    /\ cpc' = "stop_retry"
    /\ UNCHANGED << input_vars, try_count, args_created, job_list, retry_queue, jobs_left,
                    retry_thread_done, error_occured, retry_queue_cv,
                    local_vars, retry_vars, hist_vars >>

\* lines 619-620: job_thread_done = True; job_list_cv.notify_all()
C_StopJobs ==
    /\ cpc = "stop_jobs_locked"
    /\ job_thread_done' = TRUE
    /\ wpc' = NotifyAllJobList(wpc)
    /\ job_list_cv' = Free
    /\ cpc' = "stop_retry"
    /\ UNCHANGED << input_vars, try_count, args_created, job_list, retry_queue, jobs_left,
                    retry_thread_done, error_occured, retry_queue_cv,
                    local_vars, retry_vars, hist_vars >>

\* with thread_args.retry_queue_cv:  (line 621)
C_StopRetryAcquire ==
    /\ cpc = "stop_retry"
    /\ retry_queue_cv = Free
    /\ retry_queue_cv' = Controller
    /\ cpc' = "stop_retry_locked"
    /\ UNCHANGED << input_vars, try_count, args_created, job_list, retry_queue, jobs_left,
                    flag_vars, job_list_cv, wpc, local_vars, retry_vars, hist_vars >>

\* lines 622-623: retry_thread_done = True; retry_queue_cv.notify()
C_StopRetry ==
    /\ cpc = "stop_retry_locked"
    /\ retry_thread_done' = TRUE
    /\ dpc' = NotifyRetryQueue(dpc)
    /\ d_wake' = WakeAfterNotify(dpc, d_wake)
    /\ retry_queue_cv' = Free
    /\ cpc' = "join"
    /\ UNCHANGED << input_vars, try_count, args_created, job_list, retry_queue, jobs_left,
                    job_thread_done, error_occured, job_list_cv,
                    wpc, local_vars, d_now, hist_vars >>

\* the threads of thread_list
Started(w) == w <= n_threads
AllJoined == dpc = "exited" /\ \A w \in Workers : Started(w) => wpc[w] = "exited"

\* lines 627-634: join every thread, then sys.exit(1) if error_occured
C_Join ==
    /\ cpc = "join"
    /\ AllJoined
    /\ cpc' = IF error_occured THEN "exit" ELSE "returned"
    /\ UNCHANGED << input_vars, try_count, args_created, job_list, retry_queue, jobs_left,
                    flag_vars, lock_vars, wpc, local_vars, retry_vars, hist_vars >>

\* ---------------------------------------------------------------- workers
\* a pause of the whole pool: job_list_cv is not taken while any worker is
\* in its time.sleep
W_Acquire_PoolPause(w) ==
    /\ wpc[w] = "acquire"
    /\ job_list_cv = Free
    /\ \A v \in Workers : wpc[v] # "sleep"
    /\ job_list_cv' = Worker(w)
    /\ wpc' = [wpc EXCEPT ![w] = "loop"]
    /\ UNCHANGED << input_vars, try_count, args_created, job_list, retry_queue, jobs_left,
                    flag_vars, retry_queue_cv, cpc, local_vars, retry_vars, hist_vars >>

\* with args.job_list_cv: / args.job_list_cv.acquire(), also on the way out of wait()
W_Acquire(w) ==
    /\ wpc[w] = "acquire"
    /\ job_list_cv = Free
    /\ job_list_cv' = Worker(w)
    /\ wpc' = [wpc EXCEPT ![w] = "loop"]
    /\ UNCHANGED << input_vars, try_count, args_created, job_list, retry_queue, jobs_left,
                    flag_vars, retry_queue_cv, cpc, local_vars, retry_vars, hist_vars >>

\* the loop of the worker as while True
KeepsRunning_Forever(done) == TRUE

\* while not args.job_thread_done
KeepsRunning(done) == ~done

\* job = args.job_list[0]: the job is read but stays in job_list
PopJob_Peek(list) == <<list[1], list>>

\* job = heapq.heappop(args.job_list): << the job, the new job_list >>
PopJob(list) == HeapPop("JobQueueItem", list)

\* the loop of the worker with the test of job_thread_done made after the pop:
\* a queued job is popped whatever the flag says
W_Loop_PopFirst(w) ==
    /\ wpc[w] = "loop"
    /\ job_list_cv' = Free
    /\ IF Len(job_list) > 0
       THEN /\ wjob' = [wjob EXCEPT ![w] = PopJob(job_list)[1]]
            /\ job_list' = PopJob(job_list)[2]
            /\ wpc' = [wpc EXCEPT ![w] = "process"]
       ELSE IF ~KeepsRunning(job_thread_done)
       THEN /\ wpc' = [wpc EXCEPT ![w] = "exited"]
            /\ UNCHANGED << job_list, wjob >>
       ELSE /\ wpc' = [wpc EXCEPT ![w] = "wait"]
            /\ UNCHANGED << job_list, wjob >>
    /\ UNCHANGED << input_vars, try_count, args_created, retry_queue, jobs_left,
                    flag_vars, retry_queue_cv, cpc, w_outcome, w_retry_at, w_until,
                    retry_vars, hist_vars >>

\* _job_thread_func, lines 646-654: one pass of the loop with the lock held:
\* leave the loop, or pop a job and release the lock, or wait()
W_Loop(w) ==
    /\ wpc[w] = "loop"
    /\ job_list_cv' = Free
    /\ IF ~KeepsRunning(job_thread_done)
       THEN /\ wpc' = [wpc EXCEPT ![w] = "exited"]
            /\ UNCHANGED << job_list, wjob >>
       ELSE IF Len(job_list) > 0
       THEN /\ wjob' = [wjob EXCEPT ![w] = PopJob(job_list)[1]]
            /\ job_list' = PopJob(job_list)[2]
            /\ wpc' = [wpc EXCEPT ![w] = "process"]
       ELSE /\ wpc' = [wpc EXCEPT ![w] = "wait"]
            /\ UNCHANGED << job_list, wjob >>
    /\ UNCHANGED << input_vars, try_count, args_created, retry_queue, jobs_left,
                    flag_vars, retry_queue_cv, cpc, w_outcome, w_retry_at, w_until,
                    retry_vars, hist_vars >>

\* _process_job with job.try_count = 1 in place of job.try_count += 1
W_Begin_Reset(w) ==
    /\ wpc[w] = "process"
    /\ try_count' = [try_count EXCEPT ![wjob[w]] = 1]
    /\ wpc' = [wpc EXCEPT ![w] = "request"]
    /\ UNCHANGED << input_vars, args_created, job_list, retry_queue, jobs_left,
                    flag_vars, lock_vars, cpc, local_vars, retry_vars, hist_vars >>

\* _process_job with job.try_count += 2 in place of job.try_count += 1
W_Begin_ByTwo(w) ==
    /\ wpc[w] = "process"
    /\ try_count' = [try_count EXCEPT ![wjob[w]] = @ + 2]
    /\ wpc' = [wpc EXCEPT ![w] = "request"]
    /\ UNCHANGED << input_vars, args_created, job_list, retry_queue, jobs_left,
                    flag_vars, lock_vars, cpc, local_vars, retry_vars, hist_vars >>

\* _process_job, line 662: job.try_count += 1
W_Begin(w) ==
    /\ wpc[w] = "process"
    /\ try_count' = [try_count EXCEPT ![wjob[w]] = @ + 1]
    /\ wpc' = [wpc EXCEPT ![w] = "request"]
    /\ UNCHANGED << input_vars, args_created, job_list, retry_queue, jobs_left,
                    flag_vars, lock_vars, cpc, local_vars, retry_vars, hist_vars >>

\* the FacebookRequestErrors raised so far in the run
RECURSIVE SumTo(_, _)
SumTo(f, n) == IF n = 0 THEN 0 ELSE f[n] + SumTo(f, n - 1)
RequestErrors == SumTo(nretry, Len(nretry))

\* the outcomes the remote API can still produce
PossibleOutcomes ==
    IF RequestErrors < max_errors THEN Outcomes ELSE {"success", "error"}

\* the routing with every FacebookRequestError but the rate limit taken as fatal
Route_OnlyRateLimitRetried(outcome, tc) ==
    IF outcome = "success" THEN "success"
    ELSE IF outcome = "rate_limit" /\ MayRetry(tc) THEN "retry"
    ELSE "fail"

\* what the except clauses and lines 704-726 make of the outcome of the attempt
Route(outcome, tc) ==
    IF outcome = "success" THEN "success"
    ELSE IF outcome \in {"rate_limit", "request_error"} /\ MayRetry(tc) THEN "retry"
    ELSE "fail"

\* _process_job, lines 676-711: the download and upsert end with success, with
\* a FacebookRequestError (rate limit or not) or with another exception;
\* retry_at = now() + timedelta(seconds=duration)
W_Request(w) ==
    /\ wpc[w] = "request"
    /\ \E outcome \in PossibleOutcomes :
         /\ w_outcome' = [w_outcome EXCEPT ![w] = outcome]
         /\ wpc' = [wpc EXCEPT ![w] = Route(outcome, try_count[wjob[w]])]
         /\ IF Route(outcome, try_count[wjob[w]]) = "retry"
            THEN w_retry_at' = [w_retry_at EXCEPT ![w] = now + Duration(try_count[wjob[w]])]
            ELSE UNCHANGED w_retry_at
         /\ nretry' = IF outcome \in {"rate_limit", "request_error"}
                      THEN [nretry EXCEPT ![wjob[w]] = @ + 1] ELSE nretry
    /\ UNCHANGED << input_vars, try_count, args_created, job_list, retry_queue, jobs_left,
                    flag_vars, lock_vars, cpc, wjob, w_until, retry_vars, nsucc, dropped,
                    first_fatal >>

\* lines 689-692 with the decrement left out
W_Success_NoDecrement(w) ==
    /\ wpc[w] = "success"
    /\ jobs_left' = jobs_left
    /\ cpc' = IF jobs_left' = 0 THEN NotifyStateChanged(cpc) ELSE cpc
    /\ nsucc' = [nsucc EXCEPT ![wjob[w]] = @ + 1]
    /\ wjob' = [wjob EXCEPT ![w] = NoJob]
    /\ w_outcome' = [w_outcome EXCEPT ![w] = "none"]
    /\ wpc' = [wpc EXCEPT ![w] = "acquire"]
    /\ UNCHANGED << input_vars, try_count, args_created, job_list, retry_queue,
                    flag_vars, lock_vars, w_retry_at, w_until, retry_vars, nretry, dropped,
                    first_fatal >>

\* lines 689-692: with args.state_changed_cv: jobs_left -= 1; notify() if it
\* is 0; then back to the loop of _job_thread_func
W_Success(w) ==
    /\ wpc[w] = "success"
    /\ jobs_left' = jobs_left - 1
    /\ cpc' = IF jobs_left' = 0 THEN NotifyStateChanged(cpc) ELSE cpc
    /\ nsucc' = [nsucc EXCEPT ![wjob[w]] = @ + 1]
    /\ wjob' = [wjob EXCEPT ![w] = NoJob]
    /\ w_outcome' = [w_outcome EXCEPT ![w] = "none"]
    /\ wpc' = [wpc EXCEPT ![w] = "acquire"]
    /\ UNCHANGED << input_vars, try_count, args_created, job_list, retry_queue,
                    flag_vars, lock_vars, w_retry_at, w_until, retry_vars, nretry, dropped,
                    first_fatal >>

\* with args.retry_queue_cv:  (line 712)
W_RetryAcquire(w) ==
    /\ wpc[w] = "retry"
    /\ retry_queue_cv = Free
    /\ retry_queue_cv' = Worker(w)
    /\ wpc' = [wpc EXCEPT ![w] = "retry_locked"]
    /\ UNCHANGED << input_vars, try_count, args_created, job_list, retry_queue, jobs_left,
                    flag_vars, job_list_cv, cpc, local_vars, retry_vars, hist_vars >>

\* the sleep after a rate limit error left out
SleepsAfter_Never(outcome) == FALSE

\* if request_error_is_rate_limit: time.sleep(duration)
SleepsAfter(outcome) == outcome = "rate_limit"

\* lines 713-721: heappush, notify_all(), then time.sleep(duration) after a
\* rate limit error, and back to the loop of _job_thread_func
W_Retry(w) ==
    /\ wpc[w] = "retry_locked"
    /\ retry_queue' = HeapPush("RetryQueueItem", retry_queue, RetryQueueItem(w_retry_at[w], wjob[w]))
    /\ dpc' = NotifyRetryQueue(dpc)
    /\ d_wake' = WakeAfterNotify(dpc, d_wake)
    /\ retry_queue_cv' = Free
    /\ IF SleepsAfter(w_outcome[w])
       THEN /\ wpc' = [wpc EXCEPT ![w] = "sleep"]
            /\ w_until' = [w_until EXCEPT ![w] = now + Duration(try_count[wjob[w]])]
       ELSE /\ wpc' = [wpc EXCEPT ![w] = "acquire"]
            /\ UNCHANGED w_until
    /\ wjob' = [wjob EXCEPT ![w] = NoJob]
    /\ w_outcome' = [w_outcome EXCEPT ![w] = "none"]
    /\ w_retry_at' = [w_retry_at EXCEPT ![w] = 0]
    /\ UNCHANGED << input_vars, try_count, args_created, job_list, jobs_left,
                    flag_vars, job_list_cv, cpc, d_now, hist_vars >>

\* time.sleep(duration) returns
W_Wake(w) ==
    /\ wpc[w] = "sleep"
    /\ now >= w_until[w]
    /\ wpc' = [wpc EXCEPT ![w] = "acquire"]
    /\ w_until' = [w_until EXCEPT ![w] = 0]
    /\ UNCHANGED << input_vars, try_count, args_created, job_list, retry_queue, jobs_left,
                    flag_vars, lock_vars, cpc, wjob, w_outcome, w_retry_at,
                    retry_vars, hist_vars >>

\* lines 726-736 with the failed job counted as done: jobs_left -= 1 as well
W_Fail_CountsAsDone(w) ==
    /\ wpc[w] = "fail"
    /\ error_occured' = TRUE
    /\ jobs_left' = jobs_left - 1
    /\ cpc' = NotifyStateChanged(cpc)
    /\ dropped' = dropped \cup {wjob[w]}
    /\ first_fatal' = IF error_occured THEN first_fatal ELSE wjob[w]
    /\ wjob' = [wjob EXCEPT ![w] = NoJob]
    /\ w_outcome' = [w_outcome EXCEPT ![w] = "none"]
    /\ wpc' = [wpc EXCEPT ![w] = "acquire"]
    /\ UNCHANGED << input_vars, try_count, args_created, job_list, retry_queue,
                    job_thread_done, retry_thread_done, lock_vars,
                    w_retry_at, w_until, retry_vars, nsucc, nretry >>

\* lines 726-736: with args.state_changed_cv: error_occured = True; notify();
\* then back to the loop of _job_thread_func
W_Fail(w) ==
    /\ wpc[w] = "fail"
    /\ error_occured' = TRUE
    /\ cpc' = NotifyStateChanged(cpc)
    /\ dropped' = dropped \cup {wjob[w]}
    /\ first_fatal' = IF error_occured THEN first_fatal ELSE wjob[w]
    /\ wjob' = [wjob EXCEPT ![w] = NoJob]
    /\ w_outcome' = [w_outcome EXCEPT ![w] = "none"]
    /\ wpc' = [wpc EXCEPT ![w] = "acquire"]
    /\ UNCHANGED << input_vars, try_count, args_created, job_list, retry_queue, jobs_left,
                    job_thread_done, retry_thread_done, lock_vars,
                    w_retry_at, w_until, retry_vars, nsucc, nretry >>

\* ------------------------------------------------------------ retry thread
\* with args.retry_queue_cv:, also on the way out of wait()
D_Acquire ==
    /\ dpc = "acquire"
    /\ retry_queue_cv = Free
    /\ retry_queue_cv' = Dispatcher
    /\ dpc' = "loop"
    /\ UNCHANGED << input_vars, try_count, args_created, job_list, retry_queue, jobs_left,
                    flag_vars, job_list_cv, cpc, wpc, local_vars, d_now, d_wake, hist_vars >>

\* a wait with a fixed tick: wait_timeout = 60 whenever there is a top
WaitTimeout_FixedTick(queue, t) == IF Len(queue) > 0 THEN Some(BaseDelay) ELSE None

\* wait_timeout = (top.retry_at - now).total_seconds(), None without a top
WaitTimeout(queue, t) == IF Len(queue) > 0 THEN Some(queue[1].retry_at - t) ELSE None

\* the timeout of the wait dropped: the wait only ends on a notify
WakeAt_Never(timeout) == None

\* the instant at which retry_queue_cv.wait(wait_timeout) times out
WakeAt(timeout) == IF timeout = None THEN None ELSE Some(now + timeout[1])

\* _retry_thread_func, lines 742-748 and 761-764: one pass of the loop with the
\* lock held: leave the loop; or, with a top that is due, go on to take
\* job_list_cv; or, with no top or a top that is not due, wait(wait_timeout)
D_Loop ==
    /\ dpc = "loop"
    /\ IF retry_thread_done
       THEN /\ dpc' = "exited"
            /\ retry_queue_cv' = Free
            /\ UNCHANGED << d_now, d_wake >>
       ELSE IF Len(retry_queue) > 0 /\ IsDue(now, retry_queue[1])
       THEN /\ d_now' = now
            /\ dpc' = "acquire_job_list"
            /\ UNCHANGED << retry_queue_cv, d_wake >>
       ELSE /\ d_wake' = WakeAt(WaitTimeout(retry_queue, now))
            /\ retry_queue_cv' = Free
            /\ dpc' = "wait"
            /\ UNCHANGED d_now
    /\ UNCHANGED << input_vars, try_count, args_created, job_list, retry_queue, jobs_left,
                    flag_vars, job_list_cv, cpc, wpc, local_vars, hist_vars >>

\* with args.job_list_cv:  (line 751), retry_queue_cv still held
D_AcquireJobList ==
    /\ dpc = "acquire_job_list"
    /\ job_list_cv = Free
    /\ job_list_cv' = Dispatcher
    /\ dpc' = "move"
    /\ UNCHANGED << input_vars, try_count, args_created, job_list, retry_queue, jobs_left,
                    flag_vars, retry_queue_cv, cpc, wpc, local_vars, d_now, d_wake, hist_vars >>

\* the move of the due jobs with the heappush done twice
RECURSIVE MoveDue_Twice(_, _, _)
MoveDue_Twice(queue, list, t) ==
    IF Len(queue) > 0 /\ IsDue(t, queue[1])
    THEN MoveDue_Twice(HeapPop("RetryQueueItem", queue)[2],
                       HeapPush("JobQueueItem", HeapPush("JobQueueItem", list, HeapPop("RetryQueueItem", queue)[1].job),
                                HeapPop("RetryQueueItem", queue)[1].job), t)
    ELSE <<queue, list>>

\* lines 752-758: while top is due: heappop(retry_queue), heappush(job_list);
\* << the new retry_queue, the new job_list >>
RECURSIVE MoveDue(_, _, _)
MoveDue(queue, list, t) ==
    IF Len(queue) > 0 /\ IsDue(t, queue[1])
    THEN MoveDue(HeapPop("RetryQueueItem", queue)[2],
                 HeapPush("JobQueueItem", list, HeapPop("RetryQueueItem", queue)[1].job), t)
    ELSE <<queue, list>>

\* lines 752-764: move the due jobs, job_list_cv.notify(), release job_list_cv,
\* then retry_queue_cv.wait(wait_timeout)
D_Move ==
    /\ dpc = "move"
    /\ retry_queue' = MoveDue(retry_queue, job_list, d_now)[1]
    /\ job_list' = MoveDue(retry_queue, job_list, d_now)[2]
    /\ wpc' \in NotifyOneJobList(wpc)
    /\ job_list_cv' = Free
    /\ d_wake' = WakeAt(WaitTimeout(retry_queue', d_now))
    /\ d_now' = 0
    /\ retry_queue_cv' = Free
    /\ dpc' = "wait"
    /\ UNCHANGED << input_vars, try_count, args_created, jobs_left,
                    flag_vars, cpc, local_vars, hist_vars >>

\* retry_queue_cv.wait(wait_timeout) times out
D_Timeout ==
    /\ dpc = "wait"
    /\ d_wake # None
    /\ now >= d_wake[1]
    /\ dpc' = "acquire"
    /\ d_wake' = None
    /\ UNCHANGED << input_vars, try_count, args_created, job_list, retry_queue, jobs_left,
                    flag_vars, lock_vars, cpc, wpc, local_vars, d_now, hist_vars >>

\* ------------------------------------------------------------------ clock
\* the instants some thread is waiting for
Deadlines ==
    {retry_queue[i].retry_at : i \in DOMAIN retry_queue}
    \cup {w_until[w] : w \in {v \in Workers : wpc[v] = "sleep"}}
    \cup {w_retry_at[w] : w \in {v \in Workers : wpc[v] \in {"retry", "retry_locked"}}}
    \cup {d_wake[i] : i \in DOMAIN d_wake}

\* the end of a sleep or of a timed wait after d more time units; such an
\* instant is only ever compared with the present (now >= t), so how long
\* ago it was reached is not kept
Elapse(t, d) == IF t - d < now THEN now ELSE t - d

\* time passes until one of the instants some thread is waiting for: every
\* stored instant is d nearer to (or further behind) the present
Tick ==
    /\ \E d \in {t - now : t \in {u \in Deadlines : u > now}} :
         /\ retry_queue' = [i \in DOMAIN retry_queue |->
                              [retry_queue[i] EXCEPT !.retry_at = @ - d]]
         /\ w_until' = [w \in Workers |-> IF wpc[w] = "sleep"
                                          THEN Elapse(w_until[w], d) ELSE w_until[w]]
         /\ w_retry_at' = [w \in Workers |-> IF wpc[w] \in {"retry", "retry_locked"}
                                             THEN w_retry_at[w] - d ELSE w_retry_at[w]]
         /\ d_now' = IF dpc \in {"acquire_job_list", "move"} THEN d_now - d ELSE d_now
         /\ d_wake' = [i \in DOMAIN d_wake |-> Elapse(d_wake[i], d)]
    /\ UNCHANGED << input_vars, try_count, args_created, job_list, jobs_left,
                    flag_vars, lock_vars, cpc, wpc, wjob, w_outcome, dpc, hist_vars >>

\* ---------------------------------------------------------- specification
Next ==
    \/ C_Enter
    \/ C_Check
    \/ C_StopJobsAcquire
    \/ C_StopJobs
    \/ C_StopRetryAcquire
    \/ C_StopRetry
    \/ C_Join
    \/ \E w \in Workers : W_Acquire(w)
    \/ \E w \in Workers : W_Loop(w)
    \/ \E w \in Workers : W_Begin(w)
    \/ \E w \in Workers : W_Request(w)
    \/ \E w \in Workers : W_Success(w)
    \/ \E w \in Workers : W_RetryAcquire(w)
    \/ \E w \in Workers : W_Retry(w)
    \/ \E w \in Workers : W_Wake(w)
    \/ \E w \in Workers : W_Fail(w)
    \/ D_Acquire
    \/ D_Loop
    \/ D_AcquireJobList
    \/ D_Move
    \/ D_Timeout
    \/ Tick

Spec == Init /\ [][Next]_vars

\* every thread that can take a step eventually takes one, and time passes
FairSpec == LiveInit /\ [][Next]_vars /\ WF_vars(Next)


\* ------------------------------------------------------------- vocabulary
Occurrences(seq, x) == Cardinality({i \in DOMAIN seq : seq[i] = x})
InJobList(j) == Occurrences(job_list, j)
InRetryQueue(j) == Cardinality({i \in DOMAIN retry_queue : retry_queue[i].job = j})
InExecution(j) == Cardinality({w \in Workers : wjob[w] = j})
Resolved(j) == nsucc[j] > 0 \/ j \in dropped
NoFailure == RequestErrors = 0 /\ dropped = {} /\ \A w \in Workers : wpc[w] # "fail"
Completed == cpc = "returned"
Failed == cpc = "exit"
Terminal == args_created /\ (jobs_left = 0 \/ error_occured)
Succeeded == SumTo(nsucc, Len(nsucc))

\* a worker takes a job out of job_list in this step
Pops(w) == wpc[w] = "loop" /\ wpc'[w] = "process"

\* a ranks strictly higher than b: higher try_count, then later date
Outranks(a, b) ==
    \/ try_count[a] > try_count[b]
    \/ try_count[a] = try_count[b] /\ date[a] > date[b]

\* ------------------------------------------------------------------ claims
\* C1: in a run with n_threads >= 1 in which no attempt fails, whatever the
\* interleaving, every job is executed exactly once, its try_count ends at 1,
\* and the run ends COMPLETED with jobs_left = 0.
C1_NoFailureRunCompletes ==
    (n_threads >= 1 /\ []NoFailure)
        => <>[](/\ Completed
                /\ jobs_left = 0
                /\ \A j \in JobIds : try_count[j] = 1 /\ nsucc[j] = 1)

C1_Witness ==
    /\ Completed /\ NoFailure /\ jobs_left = 0
    /\ n_threads >= 2 /\ Len(date) >= 2
    /\ \A j \in JobIds : try_count[j] = 1 /\ nsucc[j] = 1

\* C2: a job whose first k attempts fail retryably (k < 8) and whose next
\* attempt succeeds has try_count = k + 1 and has decremented jobs_left
\* exactly once; when every job has succeeded jobs_left is 0 and the run does
\* not end FAILED.
C2_RetriedThenSucceeded ==
    /\ \A j \in JobIds :
         nsucc[j] > 0 => /\ nsucc[j] = 1
                         /\ nretry[j] < RetryLimit
                         /\ try_count[j] = nretry[j] + 1
    /\ args_created => jobs_left = Len(date) - Succeeded
    /\ (args_created /\ \A j \in JobIds : nsucc[j] = 1)
           => jobs_left = 0 /\ ~error_occured /\ ~Failed

C2_Witness ==
    /\ Completed
    /\ \E j \in JobIds : nsucc[j] = 1 /\ nretry[j] = 7 /\ try_count[j] = 8

\* C3: a job whose attempt with try_count = 8 fails retryably is not put into
\* the retry queue again: the worker sets error_occured and notifies the
\* controller, and the run ends FAILED.
C3_RetryLimitIsFatal ==
    /\ [](\A j \in JobIds :
            nretry[j] >= RetryLimit
                => /\ nretry[j] = RetryLimit /\ try_count[j] = RetryLimit
                   /\ InRetryQueue(j) = 0 /\ InJobList(j) = 0
                   /\ ~Completed
                   /\ \/ \E w \in Workers : wjob[w] = j /\ wpc[w] = "fail"
                      \/ j \in dropped /\ error_occured)
    /\ ((\E j \in JobIds : nretry[j] >= RetryLimit) ~> (Failed /\ error_occured))

C3_Witness ==
    /\ Failed
    /\ \E j \in JobIds : nretry[j] = 8 /\ try_count[j] = 8 /\ j \in dropped

\* C4: every pop from job_list returns a job that no job of job_list
\* outranks under (try_count, date): a higher try_count wins, equal
\* try_count is decided by the later date, whatever the order the jobs were
\* seeded or pushed in.
C4_PopReturnsMaximal ==
    [][\A w \in Workers :
          Pops(w) => /\ Occurrences(job_list, wjob'[w]) > 0
                     /\ \A i \in DOMAIN job_list : ~Outranks(job_list[i], wjob'[w])]_vars

C4_Witness ==
    \E w \in Workers :
        /\ wpc[w] = "process"
        /\ try_count[wjob[w]] = 2
        /\ \E i \in DOMAIN job_list :
              try_count[job_list[i]] = 1 /\ date[job_list[i]] > date[wjob[w]]

\* C5: a job in the retry queue with due time retry_at is not moved into
\* job_list (so neither popped nor executed) while the clock is before
\* retry_at.
C5_NotMovedBeforeDue ==
    [][\A i \in DOMAIN retry_queue :
          Occurrences(job_list', retry_queue[i].job) > 0
              => retry_queue[i].retry_at <= now]_vars

C5_Witness ==
    /\ dpc = "wait"
    /\ \E i \in DOMAIN job_list : try_count[job_list[i]] >= 1
    /\ \E i \in DOMAIN retry_queue : retry_queue[i].retry_at > now

\* C6: once jobs_left = 0 or error_occured holds, the controller sets both
\* done flags and wakes both wait points, every worker and the retry thread
\* leave their loops, the joins complete and the function ends; no thread
\* stays blocked, whatever it was doing when the flags were set.
C6_ShutdownCompletes ==
    Terminal ~> ((Completed \/ Failed) /\ AllJoined
                 /\ job_thread_done /\ retry_thread_done)

C6_Witness ==
    /\ Terminal /\ cpc = "join"
    /\ job_thread_done /\ retry_thread_done
    /\ \E w \in Workers : wpc[w] = "sleep" /\ w_until[w] > now
    /\ Len(retry_queue) > 0

\* C7: every job that is not resolved (succeeded or dropped on a fatal
\* failure) is held by exactly one of job_list, one worker and retry_queue,
\* once; a resolved job is held by none.
C7_SingleOwner ==
    \A j \in JobIds :
        /\ InJobList(j) + InExecution(j) + InRetryQueue(j) = IF Resolved(j) THEN 0 ELSE 1

C7_Witness ==
    /\ \E i \in DOMAIN retry_queue : ~Resolved(retry_queue[i].job)
    /\ \E w \in Workers : wjob[w] # NoJob /\ wpc[w] = "request"

C9_RejectsBeforeStart ==
    n_threads < 1
        => /\ cpc \in {"call", "raised"}
           /\ ~args_created
           /\ dpc = "unstarted"
           /\ \A w \in Workers : wpc[w] = "unstarted" /\ wjob[w] = NoJob
           /\ \A j \in JobIds : try_count[j] = 0
           /\ job_list = [i \in DOMAIN date |-> i]

C9_Witness == cpc = "raised" /\ n_threads = 0 /\ Len(date) >= 1

\* C10 as stated: once error_occured is true no worker pops a job and starts
\* a new attempt.
C10_NoPopAfterFatal ==
    [][error_occured => \A w \in Workers : ~Pops(w)]_vars

\* C10 as amended: once error_occured is true and the controller has set
\* job_thread_done, no worker pops a job; until job_thread_done is set a
\* worker may still pop a queued job.
C10_NoPopAfterFatalAndDone ==
    [][(error_occured /\ job_thread_done) => \A w \in Workers : ~Pops(w)]_vars

C10_Witness ==
    /\ error_occured /\ job_thread_done
    /\ Len(job_list) > 0
    /\ \E w \in Workers : wpc[w] = "exited"

\* a worker increments job.try_count in this step
Increments(j) == try_count'[j] # try_count[j]

\* C11 as stated: once the controller has set job_thread_done no worker pops
\* a job and no try_count is incremented.
C11_NoPopNoIncrementAfterDone ==
    [][job_thread_done => /\ \A w \in Workers : ~Pops(w)
                          /\ \A j \in JobIds : ~Increments(j)]_vars

\* C11 as amended: once the controller has set job_thread_done no worker pops
\* a job, whatever job_list holds, and a worker that finds the flag set
\* leaves its loop; a try_count is incremented afterwards only for a job a
\* worker had popped before the flag was set and had not yet begun.
C11_NoPopAfterDone ==
    [][job_thread_done =>
          /\ \A w \in Workers :
                /\ ~Pops(w)
                /\ (wpc[w] = "loop" /\ wpc'[w] # "loop") => wpc'[w] = "exited"
          /\ \A j \in JobIds :
                Increments(j) => /\ try_count'[j] = try_count[j] + 1
                                 /\ \E w \in Workers : wjob[w] = j /\ wpc[w] = "process"]_vars

C11_Witness ==
    /\ job_thread_done
    /\ \E w \in Workers : wpc[w] = "process" /\ try_count[wjob[w]] >= 1
    /\ \E v \in Workers : wpc[v] = "exited"

\* the controller leaves the loop around state_changed_cv.wait() in this step
LeavesWait == cpc \in {"check", "wait"} /\ cpc' \notin {"check", "wait"}

CauseJobs == {}

\* C13: when a run ends FAILED the error handed to the caller is the cause
\* recorded by the first worker that set error_occured, it is not replaced by
\* a later failure, and it identifies the job that failed.
C13_CauseIsFirstFatal ==
    Failed => CauseJobs = {first_fatal}

\* the attempt of worker w ends with a FacebookRequestError in this step
RequestFails(w) ==
    wpc[w] = "request" /\ wpc'[w] # "request"
        /\ w_outcome'[w] \in {"rate_limit", "request_error"}

\* worker w takes a step of lines 704-721, the handling of a retryable failure
HandlesRetry(w) ==
    \/ wpc[w] = "request" /\ wpc'[w] = "retry"
    \/ wpc[w] = "retry" /\ wpc'[w] = "retry_locked"
    \/ wpc[w] = "retry_locked" /\ wpc'[w] # "retry_locked"

\* C14: a retryable failure of an attempt with try_count < 8 is handled by
\* the worker alone: it does not set error_occured, does not change jobs_left
\* and does not notify the controller; all it does to the state of the
\* scheduler is to insert the job into retry_queue, once.
C14_RetryableHandledLocally ==
    [][\A w \in Workers :
          /\ (RequestFails(w) /\ try_count[wjob[w]] < RetryLimit) => HandlesRetry(w)
          /\ HandlesRetry(w) =>
                /\ try_count[wjob[w]] < RetryLimit
                /\ UNCHANGED << error_occured, jobs_left, cpc, job_list, try_count,
                                job_thread_done, retry_thread_done, nsucc, dropped >>
                /\ IF wpc[w] = "retry_locked"
                   THEN /\ Len(retry_queue') = Len(retry_queue) + 1
                        /\ Cardinality({i \in DOMAIN retry_queue' :
                                           retry_queue'[i].job = wjob[w]}) = 1
                        /\ \A i \in DOMAIN retry_queue :
                              \E k \in DOMAIN retry_queue' : retry_queue'[k] = retry_queue[i]
                   ELSE retry_queue' = retry_queue]_vars

C14_Witness ==
    /\ cpc = "wait" /\ ~error_occured /\ jobs_left = Len(date)
    /\ \E i \in DOMAIN retry_queue :
          try_count[retry_queue[i].job] = 7 /\ nretry[retry_queue[i].job] = 7
    /\ \E w \in Workers : wpc[w] = "acquire"

\* the attempt of worker w ends with an exception that is no FacebookRequestError
OtherFails(w) ==
    wpc[w] = "request" /\ wpc'[w] # "request" /\ w_outcome'[w] = "error"

\* worker w takes the step of lines 726-736 after such an exception
HandlesError(w) ==
    wpc[w] = "fail" /\ wpc'[w] # "fail" /\ w_outcome[w] = "error"

\* C15: a non-retryable failure, whatever the try_count of the job, sets
\* error_occured, notifies the controller and drops the job: the job goes
\* into neither retry_queue nor job_list, is never attempted again, and
\* jobs_left is not decremented for it.
C15_NonRetryableIsFatal ==
    /\ [][\A w \in Workers :
            /\ OtherFails(w) => wpc'[w] = "fail"
            /\ HandlesError(w) =>
                  /\ error_occured'
                  /\ cpc = "wait" => cpc' = "check"
                  /\ wjob[w] \in dropped'
                  /\ UNCHANGED << jobs_left, job_list, retry_queue, try_count >>]_vars
    /\ [][\A j \in dropped : try_count'[j] = try_count[j] /\ nsucc'[j] = 0]_vars
    /\ [](\A j \in dropped :
             /\ error_occured
             /\ InJobList(j) = 0 /\ InRetryQueue(j) = 0 /\ InExecution(j) = 0
             /\ nsucc[j] = 0)
    /\ [](args_created => jobs_left >= Cardinality(dropped))

C15_Witness ==
    /\ Failed
    /\ \E j \in dropped : nretry[j] = 2 /\ try_count[j] = 3
    /\ jobs_left = Len(date)

\* 60 * 2 ** (try_count - 1) for try_count = 1..7, written out
Delays == <<60, 120, 240, 480, 960, 1920, 3840>>

\* worker w pushes its job into retry_queue in this step
Schedules(w) == wpc[w] = "retry_locked" /\ wpc'[w] # "retry_locked"

\* C16: when the attempt with try_count = n (1 <= n <= 7) fails retryably the
\* job is scheduled with retry_at = now + 60 * 2^(n-1), so the delays of the
\* successive retries of a job are 60, 120, 240, 480, 960, 1920, 3840, each
\* twice the one before.
C16_ExponentialBackoff ==
    /\ [](\A n \in 1..(RetryLimit - 1) :
             /\ Len(Delays) = RetryLimit - 1
             /\ Duration(n) = Delays[n]
             /\ n > 1 => Duration(n) = 2 * Duration(n - 1))
    /\ [][\A w \in Workers :
            /\ (RequestFails(w) /\ HandlesRetry(w)) =>
                  /\ try_count[wjob[w]] \in 1..(RetryLimit - 1)
                  /\ w_retry_at'[w] = now + Delays[try_count[wjob[w]]]
            /\ Schedules(w) =>
                  \E i \in DOMAIN retry_queue' :
                      retry_queue'[i] = RetryQueueItem(w_retry_at[w], wjob[w])]_vars

C16_Witness ==
    \E i \in DOMAIN retry_queue :
        /\ try_count[retry_queue[i].job] = 7
        /\ retry_queue[i].retry_at = now + 3840
        /\ (\E w \in Workers : wpc[w] = "sleep" /\ w_until[w] = now + 3840)

\* C17: after a retryable failure that is a rate limit error the worker pops
\* no job until the backoff of that failure (retry_at - now) has elapsed;
\* after any other retryable failure it goes straight back to job_list and
\* may pop the next job with no wait.
C17_RateLimitPausesWorker ==
    [][\A w \in Workers :
          /\ Schedules(w) =>
                IF w_outcome[w] = "rate_limit"
                THEN /\ wpc'[w] = "sleep"
                     /\ w_until'[w] = now + Duration(try_count[wjob[w]])
                     /\ w_until'[w] >= w_retry_at[w]
                ELSE wpc'[w] = "acquire"
          /\ wpc[w] = "sleep" =>
                /\ ~Pops(w)
                /\ wpc'[w] \in {"sleep", "acquire"}
                /\ wpc'[w] = "acquire" => now >= w_until[w]]_vars

\* the only worker has just had a request error that was no rate limit and
\* has popped the next job before any time has passed
C17_Witness ==
    /\ n_threads = 1 /\ wpc[1] = "process" /\ try_count[wjob[1]] = 0
    /\ \E i \in DOMAIN retry_queue :
          /\ try_count[retry_queue[i].job] = 1
          /\ retry_queue[i].retry_at = now + Duration(1)

\* the workers suspended in job_list_cv.wait()
Suspended == {w \in Workers : wpc[w] = "wait"}

\* the retry thread ends a pass over the due jobs in this step
PushesDue == dpc = "move" /\ dpc' # "move"

\* the jobs pushed into job_list and the workers woken in this step
Pushed == Len(job_list') - Len(job_list)
Woken == Cardinality({w \in Suspended : wpc'[w] # "wait"})

\* C18: whenever jobs are pushed into job_list while workers are suspended
\* on it, several due jobs in one pass of the retry thread included, one
\* suspended worker is woken for each pushed job, up to the number of
\* suspended workers.
C18_WorkerWokenPerPushedJob ==
    [][PushesDue =>
          Woken = IF Pushed < Cardinality(Suspended)
                  THEN Pushed ELSE Cardinality(Suspended)]_vars

\* worker w takes the step of lines 689-692 after a successful attempt
Succeeds(w) == wpc[w] = "success" /\ wpc'[w] # "success"

\* C19: jobs_left starts at the number of seeded jobs, changes only by a
\* decrement of one on each successful attempt, is changed by no retryable
\* or fatal failure, and so always equals the number of seeded jobs minus
\* the number of jobs that have succeeded, and is never negative.
C19_JobsLeftCountsSuccesses ==
    /\ [](args_created => (jobs_left = Len(date) - Succeeded /\ jobs_left >= 0))
    /\ [][
          /\ (~args_created /\ args_created') => jobs_left' = Len(date)
          /\ \A w \in Workers : Succeeds(w) => jobs_left' = jobs_left - 1
          /\ (args_created /\ jobs_left' # jobs_left) => \E w \in Workers : Succeeds(w)
       ]_vars

C19_Witness ==
    /\ error_occured /\ jobs_left = 1 /\ Len(date) = 2
    /\ \E j \in JobIds : nsucc[j] = 1 /\ nretry[j] >= 1
    /\ \E j \in JobIds : j \in dropped /\ nretry[j] >= 1

\* the threads of the run
Threads == {Controller, Dispatcher} \cup {Worker(w) : w \in Workers}

\* thread t is blocked in the acquire of job_list_cv / of retry_queue_cv
WantsJobList(t) ==
    \/ t = Controller /\ cpc = "stop_jobs"
    \/ t = Dispatcher /\ dpc = "acquire_job_list"
    \/ \E w \in Workers : t = Worker(w) /\ wpc[w] = "acquire"
WantsRetryQueue(t) ==
    \/ t = Controller /\ cpc = "stop_retry"
    \/ t = Dispatcher /\ dpc = "acquire"
    \/ \E w \in Workers : t = Worker(w) /\ wpc[w] = "retry"

\* C20: no thread tries to take the lock of retry_queue_cv while it holds
\* the lock of job_list_cv; the only nesting is the retry thread taking
\* job_list_cv while it holds retry_queue_cv; so in no state do two threads
\* each hold one of the two locks and wait for the other.
C20_LockOrder ==
    /\ \A t \in Threads : WantsRetryQueue(t) => job_list_cv # t
    /\ \A t \in Threads :
          (WantsJobList(t) /\ retry_queue_cv = t) => t = Dispatcher
    /\ \A t \in Threads :
          (job_list_cv = t /\ retry_queue_cv = t) => t = Dispatcher
    /\ ~\E t, u \in Threads :
          /\ t # u
          /\ job_list_cv = t /\ WantsRetryQueue(t)
          /\ retry_queue_cv = u /\ WantsJobList(u)

\* the retry thread holds retry_queue_cv and waits for job_list_cv, which a
\* worker holds, while another worker waits for retry_queue_cv
C20_Witness ==
    /\ retry_queue_cv = Dispatcher /\ dpc = "acquire_job_list"
    /\ \E w \in Workers : job_list_cv = Worker(w) /\ wpc[w] = "loop"
    /\ \E w \in Workers : wpc[w] = "retry"

\* the retry thread goes into retry_queue_cv.wait(wait_timeout) in this step
EntersWait == dpc \in {"loop", "move"} /\ dpc' = "wait"

\* the reading of the clock (line 745) that wait_timeout is computed from
Sampled == IF dpc = "move" THEN d_now ELSE now

\* C21: the retry thread never busy-polls: every pass of its loop ends in a
\* wait whose timeout is None exactly when retry_queue is empty after the
\* pass, and otherwise is the earliest retry_at left in retry_queue minus the
\* now of the pass, which is strictly positive; never zero, negative or a
\* fixed tick.
C21_NoBusyPoll ==
    [][
       /\ (dpc = "loop" /\ dpc' # "loop") => dpc' \in {"exited", "acquire_job_list", "wait"}
       /\ (dpc = "move" /\ dpc' # "move") => dpc' = "wait"
       /\ EntersWait =>
             /\ (d_wake' = None) <=> (retry_queue' = <<>>)
             /\ retry_queue' # <<>> =>
                   /\ d_wake'[1] - now = retry_queue'[1].retry_at - Sampled
                   /\ d_wake'[1] - now > 0
                   /\ \A i \in DOMAIN retry_queue' :
                         retry_queue'[i].retry_at >= retry_queue'[1].retry_at
    ]_vars

\* after a pass that moved a due job and left one that is not yet due
C21_Witness ==
    /\ dpc = "wait" /\ d_wake # None /\ retry_queue # <<>>
    /\ d_wake[1] > now /\ ~retry_thread_done
    /\ \E i \in DOMAIN job_list : try_count[job_list[i]] >= 1

\* the earliest entry of retry_queue is due
TopDue == retry_queue # <<>> /\ retry_queue[1].retry_at <= now

\* C22 as stated: while the run is not stopping every job of retry_queue is
\* moved to job_list once its retry_at has passed; the retry thread never
\* sleeps past the earliest retry_at; a push into retry_queue while it waits
\* wakes it; and one pass moves every entry whose retry_at <= now.
C22_MovedWhenDueNeverOverslept ==
    /\ TopDue ~> (~TopDue \/ retry_thread_done)
    /\ [][
          /\ (EntersWait /\ retry_queue' # <<>>) =>
                (d_wake' # None /\ d_wake'[1] <= retry_queue'[1].retry_at)
          /\ \A w \in Workers :
                (Schedules(w) /\ dpc = "wait") => (dpc' = "acquire" /\ d_wake' = None)
          /\ PushesDue =>
                \A i \in DOMAIN retry_queue' : retry_queue'[i].retry_at > now
       ]_vars

\* C22 as amended: while the run is not stopping every job of retry_queue is
\* moved to job_list once its retry_at has passed; a push into retry_queue
\* while the retry thread waits wakes it; one pass moves every entry whose
\* retry_at <= the now read at the start of the pass, and the timeout is
\* computed from that same reading: the wait ends after the earliest
\* retry_at by the time that passed between the reading and the wait.
C22_MovedWhenDueBySample ==
    /\ TopDue ~> (~TopDue \/ retry_thread_done)
    /\ [][
          /\ (EntersWait /\ retry_queue' # <<>>) =>
                /\ d_wake' # None
                /\ d_wake'[1] = retry_queue'[1].retry_at + (now - Sampled)
                /\ now - Sampled >= 0
          /\ \A w \in Workers :
                (Schedules(w) /\ dpc = "wait") => (dpc' = "acquire" /\ d_wake' = None)
          /\ PushesDue =>
                /\ \A i \in DOMAIN retry_queue' : retry_queue'[i].retry_at > d_now
                /\ \A i \in DOMAIN retry_queue :
                      retry_queue[i].retry_at <= d_now
                          => Occurrences(job_list', retry_queue[i].job) = 1
       ]_vars

\* the retry thread is in a timed wait that ends after the earliest retry_at
C22_Witness ==
    /\ dpc = "wait" /\ d_wake # None /\ retry_queue # <<>>
    /\ d_wake[1] > now /\ d_wake[1] > retry_queue[1].retry_at
    /\ ~retry_thread_done

\* the workers in the time.sleep that follows a rate limit error
Sleeping == {w \in Workers : wpc[w] = "sleep"}

\* C23: the pause after a rate limit error is per worker: a worker in its
\* sleep holds no lock and no job, and while it sleeps every other worker can
\* still take job_list_cv, pop a job and begin an attempt, and the retry
\* thread can still move the due jobs.
C23_PausePerWorker ==
    \A w \in Sleeping :
        /\ job_list_cv # Worker(w) /\ retry_queue_cv # Worker(w) /\ wjob[w] = NoJob
        /\ \A v \in Workers \ {w} :
              /\ (wpc[v] = "acquire" /\ job_list_cv = Free) => ENABLED W_Acquire(v)
              /\ (wpc[v] = "loop" /\ ~job_thread_done /\ Len(job_list) > 0)
                    => ENABLED (W_Loop(v) /\ Pops(v))
              /\ wpc[v] = "process" => ENABLED W_Begin(v)
        /\ (dpc = "acquire_job_list" /\ job_list_cv = Free) => ENABLED D_AcquireJobList
        /\ dpc = "move" => ENABLED D_Move

\* the only job failed once, on the rate limit: the worker that had it is
\* still in its sleep, while the retry thread has moved the job back and
\* another worker has popped it
C23_Witness ==
    /\ Len(date) = 1 /\ try_count[1] = 1 /\ nretry[1] = 1
    /\ \E w \in Sleeping : w_until[w] > now
    /\ \E v \in Workers : wpc[v] = "process" /\ wjob[v] = 1

\* the attempts of job j that have ended: with success, with a
\* FacebookRequestError, or with another exception (which drops the job
\* before its 8th FacebookRequestError)
Ended(j) ==
    nsucc[j] + nretry[j] + (IF j \in dropped /\ nretry[j] < RetryLimit THEN 1 ELSE 0)

\* the attempts of job j that have begun and whose end is not yet counted
Running(j) ==
    Cardinality({w \in Workers :
                   /\ wjob[w] = j
                   /\ \/ wpc[w] \in {"request", "success"}
                      \/ wpc[w] = "fail" /\ w_outcome[w] = "error"})

\* C24: try_count starts at 0, goes up by exactly one each time the job has
\* been popped and is given to _process_job, before the attempt is made, is
\* changed by nothing else and never goes down; so it always equals the
\* number of attempts begun for the job.
C24_TryCountCountsAttempts ==
    /\ [](\A j \in JobIds :
             /\ try_count[j] = Ended(j) + Running(j)
             /\ ~args_created => try_count[j] = 0)
    /\ [][\A j \in JobIds :
             Increments(j) =>
                /\ try_count'[j] = try_count[j] + 1
                /\ \E w \in Workers :
                      wjob[w] = j /\ wpc[w] = "process" /\ wpc'[w] = "request"]_vars
    /\ [][\A w \in Workers :
             (wpc[w] = "process" /\ wpc'[w] # "process")
                => (wpc'[w] = "request" /\ Increments(wjob[w]))]_vars

C24_Witness ==
    \E j \in JobIds :
        /\ try_count[j] = 3 /\ nretry[j] = 2
        /\ \E w \in Workers : wjob[w] = j /\ wpc[w] = "request"
        /\ \E k \in JobIds : k # j /\ try_count[k] = 1 /\ InRetryQueue(k) = 1

\* C25: no job is attempted more than 8 times: in every state every job has
\* try_count <= 8, and every job in retry_queue or in job_list has
\* try_count <= 7.
C25_AtMostEightAttempts ==
    /\ \A j \in JobIds : try_count[j] <= RetryLimit /\ Ended(j) + Running(j) <= RetryLimit
    /\ \A i \in DOMAIN retry_queue : try_count[retry_queue[i].job] <= RetryLimit - 1
    /\ \A i \in DOMAIN job_list : try_count[job_list[i]] <= RetryLimit - 1
    /\ \A w \in Workers : wpc[w] = "process" => try_count[wjob[w]] <= RetryLimit - 1

C25_Witness ==
    \E w \in Workers :
        wpc[w] = "request" /\ try_count[wjob[w]] = RetryLimit /\ nretry[wjob[w]] = 7

\* job j is in job_list, in retry_queue or in the hands of a worker
Held(j) == InJobList(j) + InRetryQueue(j) + InExecution(j) > 0

\* C26: every run terminates: for every job list, every n_threads >= 1 and
\* every sequence of outcomes of the attempts, under fair scheduling and an
\* advancing clock the run ends COMPLETED or FAILED with every thread joined;
\* the controller is never left waiting with jobs_left > 0, error_occured
\* false and no job in job_list, in retry_queue or in execution.
C26_EveryRunTerminates ==
    /\ (n_threads >= 1) => <>[]((Completed \/ Failed) /\ AllJoined)
    /\ []((args_created /\ cpc \in {"check", "wait"} /\ jobs_left > 0 /\ ~error_occured)
             => \E j \in JobIds : Held(j))

C26_Witness ==
    /\ Completed /\ AllJoined
    /\ Len(date) = 2 /\ n_threads = 2
    /\ \A j \in JobIds : nretry[j] = 1 /\ nsucc[j] = 1

\* worker w is outside _process_job and holds no job
Idle(w) == wjob[w] = NoJob /\ wpc[w] \in {"unstarted", "acquire", "loop", "wait", "exited"}

\* C27: a run with an empty job list and n_threads >= 1 ends COMPLETED: the
\* controller never waits on state_changed_cv (jobs_left is 0 from the start),
\* no attempt is executed, and every started worker and the retry thread are
\* woken and joined, whether or not they had reached their wait when the
\* done flags were set.
C27_EmptyRunCompletes ==
    /\ (Len(date) = 0 /\ n_threads >= 1) => <>[](Completed /\ AllJoined)
    /\ [](Len(date) = 0 =>
            /\ cpc \notin {"wait", "exit"}
            /\ args_created => jobs_left = 0
            /\ \A w \in Workers : Idle(w)
            /\ ~error_occured)

C27_Witness ==
    /\ Len(date) = 0 /\ n_threads = 2
    /\ cpc = "stop_jobs_locked"
    /\ wpc[1] = "wait" /\ wpc[2] = "acquire"
    /\ dpc = "wait"

\* C28: whenever jobs_left = 0, job_list and retry_queue are both empty, no
\* worker is executing an attempt, and every job of the list has succeeded
\* exactly once; so a COMPLETED run has neither lost a job nor left one
\* pending nor executed a successful job a second time.
C28_NothingLeftAtZero ==
    /\ (args_created /\ jobs_left = 0) =>
            /\ job_list = << >>
            /\ retry_queue = << >>
            /\ \A w \in Workers : wjob[w] = NoJob /\ wpc[w] \notin {"process", "request"}
            /\ \A j \in JobIds : nsucc[j] = 1 /\ j \notin dropped
    /\ Completed => jobs_left = 0
    /\ \A j \in JobIds : nsucc[j] <= 1

C28_Witness ==
    /\ Completed /\ jobs_left = 0
    /\ Len(date) = 2 /\ date[1] # date[2]
    /\ \E j \in JobIds : nretry[j] >= 2

====
